---- MODULE Spec2Model ----
(***************************************************************************)
(* Model of TemplateDatabase (src/src/lib.rs): a wrapper around one SQLite *)
(* connection holding two tables,                                          *)
(*   templates(id INTEGER PRIMARY KEY, name TEXT NOT NULL UNIQUE)          *)
(*   substitutes(id INTEGER PRIMARY KEY, name TEXT NOT NULL,               *)
(*               template_id INTEGER NOT NULL REFERENCES templates(id),    *)
(*               UNIQUE(name, template_id)).                               *)
(* Text values are sequences of ASCII codes, so that LOWER() and the       *)
(* BINARY collation are computed, not assumed.  A substitutes row is the   *)
(* pair (name, template_id): no statement of the program reads or writes   *)
(* the substitutes.id column.                                              *)
(* Every public method is one action.  The store is used by one caller at  *)
(* a time (&mut self / one connection): a call runs to completion, the     *)
(* caller takes the result (Return) and only then issues the next call.    *)
(* pre_templates, pre_substitutes, call and ret record the tables before   *)
(* the last call, the call and what it returned.  engine_faults tells      *)
(* whether the SQLite engine may fail a statement (I/O error, busy, full   *)
(* disk): never under Spec, at any statement under SpecFault.  sub_names   *)
(* is the set of substitute names the caller draws from: SubNames, and     *)
(* under SpecCase two names that differ in letter case only.               *)
(***************************************************************************)
EXTENDS Integers, Sequences, FiniteSets

VARIABLES templates, substitutes, pc, call, ret, pre_templates, pre_substitutes,
          engine_faults, sub_names

vars == <<templates, substitutes, pc, call, ret, pre_templates, pre_substitutes,
          engine_faults, sub_names>>

----------------------------------------------------------------------------
(* Bounds of the model *)

\* largest template rowid the model lets an INSERT assign
MaxId == 2
\* longest substitute slice passed to insert_subs / remove_subs
MaxLen == 2

----------------------------------------------------------------------------
(* Text values *)

s_empty == <<>>
s_n == <<110>>
s_V == <<86>>
s_ab == <<97, 98>>
s_Ba == <<66, 97>>
s_bA == <<98, 65>>

\* template names the caller passes: "", "n", "V"
TemplateNames == {s_empty, s_n, s_V}
\* substitute names the caller passes: "ab", "Ba"
SubNames == {s_ab, s_Ba}
\* substitute names that differ in letter case only: "Ba", "bA"
CaseSubNames == {s_Ba, s_bA}

\* SQLite LOWER(): ASCII upper-case letters are mapped to lower case
Lower(s) == [i \in DOMAIN s |-> IF s[i] \in 65..90 THEN s[i] + 32 ELSE s[i]]

\* BINARY collation (memcmp, the shorter prefix first): s sorts strictly before t
RECURSIVE BinaryLess(_, _)
BinaryLess(s, t) ==
    IF t = <<>> THEN FALSE
    ELSE IF s = <<>> THEN TRUE
    ELSE IF Head(s) # Head(t) THEN Head(s) < Head(t)
    ELSE BinaryLess(Tail(s), Tail(t))

\* i64::to_string of a rowid: decimal digits as ASCII codes
RECURSIVE to_string(_)
to_string(n) ==
    IF n < 10 THEN <<48 + n>> ELSE to_string(n \div 10) \o <<48 + (n % 10)>>

\* INTEGER affinity of the id / template_id columns: a bound TEXT parameter
\* that looks like an integer is compared and stored as that integer
RECURSIVE IntegerAffinity(_)
IntegerAffinity(s) ==
    IF Len(s) = 1 THEN s[1] - 48
    ELSE 10 * IntegerAffinity(SubSeq(s, 1, Len(s) - 1)) + (s[Len(s)] - 48)

----------------------------------------------------------------------------
(* Results *)

Ok(v) == [ok |-> TRUE, val |-> v]
Err(e) == [ok |-> FALSE, val |-> e]

\* rusqlite::Error::QueryReturnedNoRows, raised by query_row
QueryReturnedNoRows == "QueryReturnedNoRows"
\* rusqlite::Error::SqliteFailure with a constraint code (UNIQUE violated)
ConstraintViolation == "ConstraintViolation"
\* rusqlite::Error::SqliteFailure for an engine fault (I/O, busy, full disk)
StorageFailure == "StorageFailure"

None == [some |-> FALSE]
Some(v) == [some |-> TRUE, v |-> v]

----------------------------------------------------------------------------
(* SQL statements.  D is the pair of tables [t |-> templates, s |-> substitutes] *)
(* Whether the build enforces REFERENCES templates(id) makes no difference *)
(* to any statement below: none of them is issued in a state in which it   *)
(* would leave a substitutes row without its templates row.                *)

Tables(t, s) == [t |-> t, s |-> s]

SetMax(S) == CHOOSE x \in S : \A y \in S : y <= x

\* rowid SQLite gives a new row of an INTEGER PRIMARY KEY table without
\* AUTOINCREMENT: one more than the largest rowid in the table, 1 when empty
NextRowId(t) == IF t = {} THEN 1 ELSE SetMax({r.id : r \in t}) + 1

\* SELECT id FROM templates WHERE name = ?1, read with query_row
SelectTemplateId(D, name) ==
    LET ids == {r.id : r \in {x \in D.t : x.name = name}}
    IN  IF ids = {} THEN Err(QueryReturnedNoRows)
        ELSE Ok(to_string(CHOOSE i \in ids : TRUE))

\* INSERT OR IGNORE INTO templates (name) VALUES (?1)
ExecInsertTemplate(D, name) ==
    IF \E r \in D.t : r.name = name
    THEN [db |-> D, changes |-> 0]
    ELSE [db |-> Tables(D.t \cup {[id |-> NextRowId(D.t), name |-> name]}, D.s),
          changes |-> 1]

\* variant: substitutes declared with UNIQUE(name), so that a name held by
\* any template is ignored
ExecInsertSubUniqueName(D, name, template_id) ==
    IF \E r \in D.s : r.name = name
    THEN [db |-> D, changes |-> 0]
    ELSE [db |-> Tables(D.t, D.s \cup {[name |-> name,
                                        template_id |-> IntegerAffinity(template_id)]}),
          changes |-> 1]

\* variant: INSERT OR REPLACE, which reports a change for a row that exists
ExecInsertSubOrReplace(D, name, template_id) ==
    LET row == [name |-> name, template_id |-> IntegerAffinity(template_id)]
    IN  [db |-> Tables(D.t, D.s \cup {row}), changes |-> 1]

\* INSERT OR IGNORE INTO substitutes (name, template_id) VALUES (?1, ?2)
ExecInsertSub(D, name, template_id) ==
    LET row == [name |-> name, template_id |-> IntegerAffinity(template_id)]
    IN  IF row \in D.s
        THEN [db |-> D, changes |-> 0]
        ELSE [db |-> Tables(D.t, D.s \cup {row}), changes |-> 1]

----------------------------------------------------------------------------
(* Transactions.  A step result is [db, ret]; fault is the number of the   *)
(* statement of the call (BEGIN is 1) at which the engine reports a        *)
(* failure, 0 for none.                                                    *)

\* Drop of a rusqlite Transaction that was not committed: DropBehavior::Rollback
DropTransaction(before, work) == before

\* the ? operator after the statements of a transaction: an error drops the
\* transaction, success has committed it
EndTransaction(before, work, r) ==
    IF r.ok THEN [db |-> work, ret |-> r]
    ELSE [db |-> DropTransaction(before, work), ret |-> r]

\* variant: the loop records every element, whatever the INSERT reports
RECURSIVE InsertLoopRecordsAll(_, _, _, _, _, _, _)
InsertLoopRecordsAll(D, template_id, subs, i, n, fault, inserted_subs) ==
    IF i > Len(subs) THEN [db |-> D, ret |-> Ok(inserted_subs)]
    ELSE IF fault = n THEN [db |-> D, ret |-> Err(StorageFailure)]
    ELSE InsertLoopRecordsAll(
             Tables(D.t, D.s \cup {[name |-> subs[i],
                                    template_id |-> IntegerAffinity(template_id)]}),
             template_id, subs, i + 1, n + 1, fault,
             Append(inserted_subs, subs[i]))

\* the loop of execute_insert_subs from element i on; n is the number of
\* the statement that inserts element i
RECURSIVE InsertLoop(_, _, _, _, _, _, _)
InsertLoop(D, template_id, subs, i, n, fault, inserted_subs) ==
    IF i > Len(subs) THEN [db |-> D, ret |-> Ok(inserted_subs)]
    ELSE IF fault = n THEN [db |-> D, ret |-> Err(StorageFailure)]
    ELSE LET e == ExecInsertSub(D, subs[i], template_id)
         IN  InsertLoop(e.db, template_id, subs, i + 1, n + 1, fault,
                        IF e.changes > 0 THEN Append(inserted_subs, subs[i])
                        ELSE inserted_subs)

\* execute_insert_subs; its first statement has number n
execute_insert_subs(D, template, subs, n, fault) ==
    IF fault = n THEN [db |-> D, ret |-> Err(StorageFailure)]
    ELSE LET id == SelectTemplateId(D, template)
         IN  IF ~id.ok THEN [db |-> D, ret |-> id]
             ELSE InsertLoop(D, id.val, subs, 1, n + 1, fault, <<>>)

\* execute_insert_template; its statement has number n
execute_insert_template(D, template, n, fault) ==
    IF fault = n THEN [db |-> D, ret |-> Err(StorageFailure)]
    ELSE [db |-> ExecInsertTemplate(D, template).db, ret |-> Ok(<<>>)]

\* number of statements insert_subs issues when nothing fails
InsertSubsStatements(substitutes_) ==
    IF substitutes_.some THEN 4 + Len(substitutes_.v) ELSE 3

insert_subs(D, template, substitutes_, fault) ==
    IF fault = 1 THEN [db |-> D, ret |-> Err(StorageFailure)]
    ELSE
    LET a == execute_insert_template(D, template, 2, fault)
        b == IF ~a.ret.ok THEN a
             ELSE IF substitutes_.some
                  THEN execute_insert_subs(a.db, template, substitutes_.v, 3, fault)
                  ELSE a
        c == IF b.ret.ok /\ fault = InsertSubsStatements(substitutes_)
             THEN [db |-> b.db, ret |-> Err(StorageFailure)]
             ELSE b
    IN  EndTransaction(D, c.db, c.ret)

\* the engine reports a failure: the call returns the error with ?
Fail(D) == [db |-> D, ret |-> Err(StorageFailure)]

\* variant: SELECT id FROM templates without the WHERE clause, which reads
\* the id of some row whatever the name
find_template_id_with_transactionAnyRow(D, template) ==
    IF D.t = {} THEN Err(QueryReturnedNoRows)
    ELSE Ok(to_string(SetMax({r.id : r \in D.t})))

\* find_template_id_with_transaction
find_template_id_with_transaction(D, template) == SelectTemplateId(D, template)

\* variant: the substitutes of the template are not deleted
ExecDeleteSubsOfTemplateSkipped(D, template_id) == [db |-> D, changes |-> 0]

\* variant: DELETE FROM substitutes without the WHERE clause
ExecDeleteSubsOfAllTemplates(D, template_id) ==
    [db |-> Tables(D.t, {}), changes |-> Cardinality(D.s)]

\* DELETE FROM substitutes WHERE template_id = ?1
ExecDeleteSubsOfTemplate(D, template_id) ==
    LET gone == {r \in D.s : r.template_id = IntegerAffinity(template_id)}
    IN  [db |-> Tables(D.t, D.s \ gone), changes |-> Cardinality(gone)]

\* DELETE FROM templates WHERE id = ?1
ExecDeleteTemplate(D, template_id) ==
    LET gone == {r \in D.t : r.id = IntegerAffinity(template_id)}
    IN  [db |-> Tables(D.t \ gone, D.s), changes |-> Cardinality(gone)]

\* DELETE FROM substitutes WHERE template_id = ?1 AND name = ?2
ExecDeleteSub(D, template_id, name) ==
    LET gone == {r \in D.s : /\ r.template_id = IntegerAffinity(template_id)
                             /\ r.name = name}
    IN  [db |-> Tables(D.t, D.s \ gone), changes |-> Cardinality(gone)]

\* variant: templates.name without the UNIQUE constraint
ExecUpdateTemplateNameNotUnique(D, new_template, old_template) ==
    LET hit == {r \in D.t : r.name = old_template}
        renamed == {[id |-> r.id, name |-> new_template] : r \in hit}
    IN  [db |-> Tables((D.t \ hit) \cup renamed, D.s),
         changes |-> Cardinality(hit), failed |-> FALSE]

\* variant: the rename deletes the row and inserts one with the new name,
\* which gets a new rowid
ExecUpdateTemplateNameReinsert(D, new_template, old_template) ==
    LET hit == {r \in D.t : r.name = old_template}
    IN  IF \E r \in hit : \E o \in D.t : o.id # r.id /\ o.name = new_template
        THEN [db |-> D, changes |-> 0, failed |-> TRUE]
        ELSE IF hit = {} THEN [db |-> D, changes |-> 0, failed |-> FALSE]
        ELSE [db |-> Tables((D.t \ hit) \cup
                              {[id |-> NextRowId(D.t), name |-> new_template]}, D.s),
              changes |-> 1, failed |-> FALSE]

\* UPDATE templates SET name = ?1 WHERE name = ?2; UNIQUE(name) is checked
\* against the other rows of the table
ExecUpdateTemplateName(D, new_template, old_template) ==
    LET hit == {r \in D.t : r.name = old_template}
        renamed == {[id |-> r.id, name |-> new_template] : r \in hit}
    IN  IF \E r \in hit : \E o \in D.t : o.id # r.id /\ o.name = new_template
        THEN [db |-> D, changes |-> 0, failed |-> TRUE]
        ELSE [db |-> Tables((D.t \ hit) \cup renamed, D.s),
              changes |-> Cardinality(hit), failed |-> FALSE]

\* variant: UPDATE substitutes SET name = ?1 WHERE name = ?2, in every template
ExecUpdateSubNameAnyTemplate(D, new_sub, old_sub, template_id) ==
    LET hit == {r \in D.s : r.name = old_sub}
        renamed == {[name |-> new_sub, template_id |-> r.template_id] : r \in hit}
    IN  IF new_sub # old_sub /\ renamed \cap D.s # {}
        THEN [db |-> D, changes |-> 0, failed |-> TRUE]
        ELSE [db |-> Tables(D.t, (D.s \ hit) \cup renamed),
              changes |-> Cardinality(hit), failed |-> FALSE]

\* UPDATE substitutes SET name = ?1 WHERE name = ?2 AND template_id = ?3;
\* UNIQUE(name, template_id) is checked against the other rows of the table
ExecUpdateSubName(D, new_sub, old_sub, template_id) ==
    LET tid == IntegerAffinity(template_id)
        hit == {r \in D.s : r.name = old_sub /\ r.template_id = tid}
        renamed == {[name |-> new_sub, template_id |-> tid] : r \in hit}
    IN  IF new_sub # old_sub /\ hit # {} /\ renamed \subseteq D.s
        THEN [db |-> D, changes |-> 0, failed |-> TRUE]
        ELSE [db |-> Tables(D.t, (D.s \ hit) \cup renamed),
              changes |-> Cardinality(hit), failed |-> FALSE]

insert_sub(D, template, substitute, fault) ==
    IF fault = 1 THEN Fail(D)
    ELSE IF fault = 2 THEN EndTransaction(D, D, Err(StorageFailure))
    ELSE
    LET id == find_template_id_with_transaction(D, template)
    IN  IF ~id.ok THEN EndTransaction(D, D, id)
        ELSE IF fault = 3 THEN EndTransaction(D, D, Err(StorageFailure))
        ELSE LET e == ExecInsertSub(D, substitute, id.val)
             IN  IF fault = 4 THEN EndTransaction(D, e.db, Err(StorageFailure))
                 ELSE EndTransaction(D, e.db, Ok(e.changes > 0))

remove_template(D, template, fault) ==
    IF fault = 1 THEN Fail(D)
    ELSE IF fault = 2 THEN EndTransaction(D, D, Err(StorageFailure))
    ELSE
    LET id == find_template_id_with_transaction(D, template)
    IN  IF ~id.ok THEN EndTransaction(D, D, id)
        ELSE IF fault = 3 THEN EndTransaction(D, D, Err(StorageFailure))
        ELSE
        LET a == ExecDeleteSubsOfTemplate(D, id.val)
        IN  IF fault = 4 THEN EndTransaction(D, a.db, Err(StorageFailure))
            ELSE
            LET b == ExecDeleteTemplate(a.db, id.val)
            IN  IF fault = 5 THEN EndTransaction(D, b.db, Err(StorageFailure))
                ELSE EndTransaction(D, b.db, Ok(b.changes > 0))

remove_sub(D, template, substitute, fault) ==
    IF fault = 1 THEN Fail(D)
    ELSE IF fault = 2 THEN EndTransaction(D, D, Err(StorageFailure))
    ELSE
    LET id == find_template_id_with_transaction(D, template)
    IN  IF ~id.ok THEN EndTransaction(D, D, id)
        ELSE IF fault = 3 THEN EndTransaction(D, D, Err(StorageFailure))
        ELSE LET e == ExecDeleteSub(D, id.val, substitute)
             IN  IF fault = 4 THEN EndTransaction(D, e.db, Err(StorageFailure))
                 ELSE EndTransaction(D, e.db, Ok(e.changes > 0))

\* variant: the loop records every element, whatever the DELETE reports
RECURSIVE RemoveLoopRecordsAll(_, _, _, _, _, _, _)
RemoveLoopRecordsAll(D, template_id, subs, i, n, fault, removed_subs) ==
    IF i > Len(subs) THEN [db |-> D, ret |-> Ok(removed_subs)]
    ELSE IF fault = n THEN [db |-> D, ret |-> Err(StorageFailure)]
    ELSE RemoveLoopRecordsAll(
             Tables(D.t, D.s \ {[name |-> subs[i],
                                 template_id |-> IntegerAffinity(template_id)]}),
             template_id, subs, i + 1, n + 1, fault,
             Append(removed_subs, subs[i]))

\* the loop of remove_subs from element i on; n is the number of the
\* statement that deletes element i
RECURSIVE RemoveLoop(_, _, _, _, _, _, _)
RemoveLoop(D, template_id, subs, i, n, fault, removed_subs) ==
    IF i > Len(subs) THEN [db |-> D, ret |-> Ok(removed_subs)]
    ELSE IF fault = n THEN Fail(D)
    ELSE LET e == ExecDeleteSub(D, template_id, subs[i])
         IN  RemoveLoop(e.db, template_id, subs, i + 1, n + 1, fault,
                        IF e.changes > 0 THEN Append(removed_subs, subs[i])
                        ELSE removed_subs)

remove_subs(D, template, subs, fault) ==
    IF fault = 1 THEN Fail(D)
    ELSE IF fault = 2 THEN EndTransaction(D, D, Err(StorageFailure))
    ELSE
    LET id == find_template_id_with_transaction(D, template)
    IN  IF ~id.ok THEN EndTransaction(D, D, id)
        ELSE
        LET a == RemoveLoop(D, id.val, subs, 1, 3, fault, <<>>)
        IN  IF a.ret.ok /\ fault = 3 + Len(subs)
            THEN EndTransaction(D, a.db, Err(StorageFailure))
            ELSE EndTransaction(D, a.db, a.ret)

rename_template(D, old_template, new_template, fault) ==
    IF fault = 1 THEN Fail(D)
    ELSE IF fault = 2 THEN EndTransaction(D, D, Err(StorageFailure))
    ELSE
    LET e == ExecUpdateTemplateName(D, new_template, old_template)
    IN  IF e.failed THEN EndTransaction(D, e.db, Err(ConstraintViolation))
        ELSE IF fault = 3 THEN EndTransaction(D, e.db, Err(StorageFailure))
        ELSE EndTransaction(D, e.db, Ok(e.changes > 0))

rename_substitute(D, template, old_sub, new_sub, fault) ==
    IF fault = 1 THEN Fail(D)
    ELSE IF fault = 2 THEN EndTransaction(D, D, Err(StorageFailure))
    ELSE
    LET id == find_template_id_with_transaction(D, template)
    IN  IF ~id.ok THEN EndTransaction(D, D, id)
        ELSE IF fault = 3 THEN EndTransaction(D, D, Err(StorageFailure))
        ELSE
        LET e == ExecUpdateSubName(D, new_sub, old_sub, id.val)
        IN  IF e.failed THEN EndTransaction(D, e.db, Err(ConstraintViolation))
            ELSE IF fault = 4 THEN EndTransaction(D, e.db, Err(StorageFailure))
            ELSE EndTransaction(D, e.db, Ok(e.changes > 0))

\* variant: clear without its first statement, DELETE FROM substitutes
clearTemplatesOnly(D, fault) ==
    IF fault = 1 \/ fault = 2 THEN [db |-> D, ret |-> Err(StorageFailure)]
    ELSE [db |-> Tables({}, D.s), ret |-> Ok("unit")]

\* clear runs its two statements on the connection, outside any transaction:
\* each statement is committed as it completes
clear(D, fault) ==
    IF fault = 1 THEN Fail(D)
    ELSE LET a == Tables(D.t, {})
         IN  IF fault = 2 THEN Fail(a)
             ELSE [db |-> Tables({}, a.s), ret |-> Ok("unit")]


----------------------------------------------------------------------------
(* Queries *)

\* variant: ORDER BY name ASC, without LOWER()
OrderByName(names) ==
    LET n == Cardinality(names)
    IN  {q \in [1..n -> names] :
            /\ \A i, j \in 1..n : i # j => q[i] # q[j]
            /\ \A i, j \in 1..n : i < j => ~BinaryLess(q[j], q[i])}

\* the orders in which a SELECT ... ORDER BY LOWER(name) ASC may return the
\* given names: ascending by the lowered key under BINARY collation; the
\* order of rows with equal keys is not fixed by the statement
OrderByLower(names) ==
    LET n == Cardinality(names)
    IN  {q \in [1..n -> names] :
            /\ \A i, j \in 1..n : i # j => q[i] # q[j]
            /\ \A i, j \in 1..n :
                  i < j => ~BinaryLess(Lower(q[j]), Lower(q[i]))}

\* variant: a missing template reads as id 0 instead of an error
find_template_idOrZero(D, template) ==
    IF \E r \in D.t : r.name = template THEN SelectTemplateId(D, template)
    ELSE Ok(to_string(0))

\* self.find_template_id
find_template_id(D, template) == SelectTemplateId(D, template)

\* names of the substitutes rows WHERE template_id = ?1
SubsOf(D, template_id) ==
    {r.name : r \in {x \in D.s : x.template_id = IntegerAffinity(template_id)}}

\* the results get_subs may return
get_subs(D, template) ==
    LET id == find_template_id(D, template)
    IN  IF ~id.ok THEN {id}
        ELSE {Ok(q) : q \in OrderByLower(SubsOf(D, id.val))}

\* variant: the random row is drawn from the substitutes of every template
get_random_subsAnyTemplate(D, template) ==
    LET id == find_template_id(D, template)
    IN  IF ~id.ok THEN {id}
        ELSE IF D.s = {} THEN {Ok(s_empty)}
        ELSE {Ok(r.name) : r \in D.s}

\* the results get_random_subs may return: ORDER BY RANDOM() LIMIT 1
get_random_subs(D, template) ==
    LET id == find_template_id(D, template)
    IN  IF ~id.ok THEN {id}
        ELSE IF SubsOf(D, id.val) = {} THEN {Ok(s_empty)}
        ELSE {Ok(x) : x \in SubsOf(D, id.val)}

\* the results get_templates may return
get_templates(D) == {Ok(q) : q \in OrderByLower({r.name : r \in D.t})}

----------------------------------------------------------------------------
(* Actions *)

DB == Tables(templates, substitutes)

Seqs(S, n) == UNION {[1..k -> S] : k \in 0..n}

\* the statements of a call at which the engine may report a failure:
\* any of its n statements when engine_faults, none otherwise
FaultPoints(n) == IF engine_faults THEN 0..n ELSE {0}

NoCall == [op |-> "none"]
NoRet == [ok |-> TRUE, val |-> "none"]

\* no INSERT of the call has been given a rowid above MaxId
WithinIds(t) == \A r \in t : r.id <= MaxId

Invoke(c, result) ==
    /\ pc = "idle"
    /\ LET out == result
       IN  /\ WithinIds(out.db.t)
           /\ templates' = out.db.t
           /\ substitutes' = out.db.s
           /\ ret' = out.ret
    /\ call' = c
    /\ pre_templates' = templates
    /\ pre_substitutes' = substitutes
    /\ pc' = "returned"
    /\ UNCHANGED <<engine_faults, sub_names>>

Query(c, r) ==
    /\ pc = "idle"
    /\ ret' = r
    /\ call' = c
    /\ pre_templates' = templates
    /\ pre_substitutes' = substitutes
    /\ pc' = "returned"
    /\ UNCHANGED <<templates, substitutes, engine_faults, sub_names>>

InsertSubs ==
    \E template \in TemplateNames :
    \E substitutes_ \in {None} \cup {Some(q) : q \in Seqs(sub_names, MaxLen)} :
    \E fault \in FaultPoints(InsertSubsStatements(substitutes_)) :
        Invoke([op |-> "insert_subs", template |-> template,
                substitutes |-> substitutes_],
               insert_subs(DB, template, substitutes_, fault))

InsertSub ==
    \E template \in TemplateNames : \E substitute \in sub_names :
    \E fault \in FaultPoints(4) :
        Invoke([op |-> "insert_sub", template |-> template,
                substitute |-> substitute],
               insert_sub(DB, template, substitute, fault))

RemoveTemplate ==
    \E template \in TemplateNames : \E fault \in FaultPoints(5) :
        Invoke([op |-> "remove_template", template |-> template],
               remove_template(DB, template, fault))

RemoveSub ==
    \E template \in TemplateNames : \E substitute \in sub_names :
    \E fault \in FaultPoints(4) :
        Invoke([op |-> "remove_sub", template |-> template,
                substitute |-> substitute],
               remove_sub(DB, template, substitute, fault))

RemoveSubs ==
    \E template \in TemplateNames : \E subs \in Seqs(sub_names, MaxLen) :
    \E fault \in FaultPoints(3 + Len(subs)) :
        Invoke([op |-> "remove_subs", template |-> template,
                substitutes |-> subs],
               remove_subs(DB, template, subs, fault))

RenameTemplate ==
    \E old_template \in TemplateNames : \E new_template \in TemplateNames :
    \E fault \in FaultPoints(3) :
        Invoke([op |-> "rename_template", old_template |-> old_template,
                new_template |-> new_template],
               rename_template(DB, old_template, new_template, fault))

RenameSubstitute ==
    \E template \in TemplateNames :
    \E old_sub \in sub_names : \E new_sub \in sub_names :
    \E fault \in FaultPoints(4) :
        Invoke([op |-> "rename_substitute", template |-> template,
                old_sub |-> old_sub, new_sub |-> new_sub],
               rename_substitute(DB, template, old_sub, new_sub, fault))

Clear ==
    \E fault \in FaultPoints(2) : Invoke([op |-> "clear"], clear(DB, fault))

GetRandomSubs ==
    \E template \in TemplateNames :
    \E r \in get_random_subs(DB, template) :
        Query([op |-> "get_random_subs", template |-> template], r)

GetSubs ==
    \E template \in TemplateNames :
    \E r \in get_subs(DB, template) :
        Query([op |-> "get_subs", template |-> template], r)

GetTemplates ==
    \E r \in get_templates(DB) : Query([op |-> "get_templates"], r)

\* the caller has taken the result; the next call may start
Return ==
    /\ pc = "returned"
    /\ pc' = "idle"
    /\ call' = NoCall
    /\ ret' = NoRet
    /\ pre_templates' = templates
    /\ pre_substitutes' = substitutes
    /\ UNCHANGED <<templates, substitutes, engine_faults, sub_names>>

Init ==
    /\ templates = {}
    /\ substitutes = {}
    /\ pc = "idle"
    /\ call = NoCall
    /\ ret = NoRet
    /\ pre_templates = {}
    /\ pre_substitutes = {}
    /\ engine_faults = FALSE
    /\ sub_names = SubNames

Next ==
    \/ InsertSub
    \/ InsertSubs
    \/ RemoveTemplate
    \/ RemoveSub
    \/ RemoveSubs
    \/ RenameTemplate
    \/ RenameSubstitute
    \/ Clear
    \/ GetRandomSubs
    \/ GetSubs
    \/ GetTemplates
    \/ Return

Spec == Init /\ [][Next]_vars

\* the same calls against an engine that may fail any statement
InitFault ==
    /\ templates = {}
    /\ substitutes = {}
    /\ pc = "idle"
    /\ call = NoCall
    /\ ret = NoRet
    /\ pre_templates = {}
    /\ pre_substitutes = {}
    /\ engine_faults = TRUE
    /\ sub_names = SubNames

SpecFault == InitFault /\ [][Next]_vars

\* the same calls by a caller whose substitute names differ in case only
InitCase ==
    /\ templates = {}
    /\ substitutes = {}
    /\ pc = "idle"
    /\ call = NoCall
    /\ ret = NoRet
    /\ pre_templates = {}
    /\ pre_substitutes = {}
    /\ engine_faults = FALSE
    /\ sub_names = CaseSubNames

SpecCase == InitCase /\ [][Next]_vars

----------------------------------------------------------------------------
(* Vocabulary of the properties *)

PreDB == Tables(pre_templates, pre_substitutes)

\* a call of op has returned
Returned(op) == pc = "returned" /\ call.op = op

\* template names in D
TemplateSet(D) == {r.name : r \in D.t}

\* the substitutes of the template named T in D (none when T is absent)
SubsByName(D, T) ==
    {r.name : r \in {x \in D.s : \E t \in D.t : t.name = T /\ t.id = x.template_id}}

Range(q) == {q[i] : i \in DOMAIN q}

NoDuplicates(q) == \A i, j \in DOMAIN q : i # j => q[i] # q[j]

\* case-insensitive comparison, letter by letter: s sorts strictly before t
FoldCase(c) == IF c >= 65 /\ c <= 90 THEN c + 32 ELSE c

RECURSIVE CaseInsensitiveLess(_, _)
CaseInsensitiveLess(s, t) ==
    IF Len(t) = 0 THEN FALSE
    ELSE IF Len(s) = 0 THEN TRUE
    ELSE IF FoldCase(s[1]) < FoldCase(t[1]) THEN TRUE
    ELSE IF FoldCase(s[1]) > FoldCase(t[1]) THEN FALSE
    ELSE CaseInsensitiveLess(SubSeq(s, 2, Len(s)), SubSeq(t, 2, Len(t)))

AscendingIgnoringCase(q) ==
    \A i, j \in DOMAIN q : i < j => ~CaseInsensitiveLess(q[j], q[i])

\* the elements of q that are in P, each at its first occurrence, in q's order
RECURSIVE FirstOccurrencesIn(_, _)
FirstOccurrencesIn(q, P) ==
    IF q = <<>> THEN <<>>
    ELSE LET front == SubSeq(q, 1, Len(q) - 1)
             last == q[Len(q)]
         IN  IF last \in P /\ last \notin Range(front)
             THEN Append(FirstOccurrencesIn(front, P), last)
             ELSE FirstOccurrencesIn(front, P)

\* every template but those named in Ts, and its substitutes, is as before the call
OthersUnchanged(Ts) ==
    \A U \in (TemplateSet(PreDB) \cup TemplateSet(DB)) \ Ts :
        /\ U \in TemplateSet(PreDB)
        /\ U \in TemplateSet(DB)
        /\ SubsByName(DB, U) = SubsByName(PreDB, U)

----------------------------------------------------------------------------
(* C1: after insert_subs(T, Some(S)) succeeds, get_subs(T) succeeds and    *)
(* returns the substitutes T had before the call together with the         *)
(* elements of S, each exactly once, in ascending order of their           *)
(* lowercased form.                                                        *)
C1_InsertThenList ==
    (Returned("insert_subs") /\ call.substitutes.some /\ ret.ok) =>
        \A r \in get_subs(DB, call.template) :
            /\ r.ok
            /\ Range(r.val) = SubsByName(PreDB, call.template)
                                 \cup Range(call.substitutes.v)
            /\ NoDuplicates(r.val)
            /\ AscendingIgnoringCase(r.val)

\* insert_subs(T, ["Ba", "ab"]) into a template without substitutes:
\* get_subs(T) is ["ab", "Ba"]
C1_Witness ==
    /\ Returned("insert_subs") /\ call.substitutes.some /\ ret.ok
    /\ call.substitutes.v = <<s_Ba, s_ab>>
    /\ SubsByName(PreDB, call.template) = {}
    /\ get_subs(DB, call.template) = {Ok(<<s_ab, s_Ba>>)}

(* C2: insert_subs is idempotent.  In every state in which                 *)
(* insert_subs(T, Some(S)) has just succeeded, the same call made again    *)
(* returns an empty change record and leaves the templates and what        *)
(* get_subs(T) returns as they are.                                        *)
C2_InsertIdempotent ==
    (Returned("insert_subs") /\ call.substitutes.some /\ ret.ok) =>
        LET again == insert_subs(DB, call.template, call.substitutes, 0)
        IN  /\ again.ret = Ok(<<>>)
            /\ get_templates(again.db) = get_templates(DB)
            /\ get_subs(again.db, call.template) = get_subs(DB, call.template)

\* a first insert_subs that did insert two substitutes
C2_Witness ==
    /\ Returned("insert_subs") /\ call.substitutes.some /\ ret.ok
    /\ Len(ret.val) = 2

(* C3: every insert that targets a template that does not exist yet        *)
(* (insert_subs with or without substitutes, insert_sub) creates the       *)
(* template and succeeds; afterwards the template is listed and holds the  *)
(* inserted substitutes.                                                   *)
C3_InsertCreatesTemplate ==
    ((Returned("insert_sub") \/ Returned("insert_subs"))
        /\ call.template \notin TemplateSet(PreDB)) =>
        /\ ret.ok
        /\ call.template \in TemplateSet(DB)
        /\ \A r \in get_templates(DB) : call.template \in Range(r.val)
        /\ Returned("insert_sub") => call.substitute \in SubsByName(DB, call.template)
        /\ (Returned("insert_subs") /\ call.substitutes.some) =>
              Range(call.substitutes.v) \subseteq SubsByName(DB, call.template)

(* C4: insert_subs with the empty string as template name returns an empty *)
(* change record and creates no template row and no substitute row.        *)
C4_BlankTemplateRejected ==
    (Returned("insert_subs") /\ call.template = s_empty) =>
        /\ ret = Ok(<<>>)
        /\ templates = pre_templates
        /\ substitutes = pre_substitutes

(* C5: referential integrity: in every state, after successful and failing *)
(* calls alike, the template_id of every substitutes row is the id of a    *)
(* templates row; and after remove_template(T) has succeeded no            *)
(* substitutes row carries the id T had.                                   *)
C5_ReferentialIntegrity ==
    /\ \A r \in substitutes : \E t \in templates : t.id = r.template_id
    /\ (Returned("remove_template") /\ ret.ok) =>
          \A t \in pre_templates :
              t.name = call.template =>
                  \A r \in substitutes : r.template_id # t.id

\* remove_template of a template that had substitutes, while another
\* template keeps its own
C5_Witness ==
    /\ Returned("remove_template") /\ ret.ok
    /\ SubsByName(PreDB, call.template) # {}
    /\ substitutes # {}

(* C6: every mutating call is all-or-nothing: when it returns an error the *)
(* templates and substitutes are those before the call.                    *)
C6_AllOrNothing ==
    (pc = "returned" /\ ~ret.ok
        /\ call.op \in {"insert_sub", "insert_subs", "remove_template",
                        "remove_sub", "remove_subs", "rename_template",
                        "rename_substitute", "clear"}) =>
        /\ templates = pre_templates
        /\ substitutes = pre_substitutes

(* C7: rename_template(old, new) with old and new two different existing   *)
(* templates fails with the uniqueness error and changes nothing: both     *)
(* names are still listed and each has the substitutes it had.             *)
C7_RenameConflict ==
    (Returned("rename_template")
        /\ call.old_template # call.new_template
        /\ call.old_template \in TemplateSet(PreDB)
        /\ call.new_template \in TemplateSet(PreDB)) =>
        /\ ret = Err(ConstraintViolation)
        /\ templates = pre_templates
        /\ substitutes = pre_substitutes
        /\ \A r \in get_templates(DB) :
              {call.old_template, call.new_template} \subseteq Range(r.val)
        /\ get_subs(DB, call.old_template) = get_subs(PreDB, call.old_template)
        /\ get_subs(DB, call.new_template) = get_subs(PreDB, call.new_template)

\* the two templates hold different substitutes when the rename is refused
C7_Witness ==
    /\ Returned("rename_template")
    /\ call.old_template # call.new_template
    /\ {call.old_template, call.new_template} \subseteq TemplateSet(PreDB)
    /\ SubsByName(PreDB, call.old_template) # {}
    /\ SubsByName(PreDB, call.old_template) # SubsByName(PreDB, call.new_template)
    /\ ~ret.ok

(* C8: a rename_template(old, new) that returns true keeps the row: new    *)
(* has the id and the substitutes old had, old is no longer listed (when   *)
(* the names differ), the number of templates is the same, and every other *)
(* template and its substitutes are unchanged.                             *)
C8_RenameKeepsIdentity ==
    (Returned("rename_template") /\ ret = Ok(TRUE)) =>
        /\ get_subs(DB, call.new_template) = get_subs(PreDB, call.old_template)
        /\ \A r \in get_subs(DB, call.new_template) : r.ok
        /\ \A t \in pre_templates :
              t.name = call.old_template =>
                  [id |-> t.id, name |-> call.new_template] \in templates
        /\ call.old_template # call.new_template =>
              \A r \in get_templates(DB) : call.old_template \notin Range(r.val)
        /\ Cardinality(templates) = Cardinality(pre_templates)
        /\ OthersUnchanged({call.old_template, call.new_template})

\* a template with substitutes is given a new name while another template
\* with substitutes exists
C8_Witness ==
    /\ Returned("rename_template") /\ ret = Ok(TRUE)
    /\ call.old_template # call.new_template
    /\ SubsByName(PreDB, call.old_template) # {}
    /\ \E U \in TemplateSet(PreDB) \ {call.old_template} :
          /\ SubsByName(PreDB, U) # {}
          /\ SubsByName(PreDB, U) # SubsByName(PreDB, call.old_template)

(* C9: remove_template(T) on an existing T returns true and T is no longer *)
(* listed; on an absent T it returns the no-rows error; either way every   *)
(* other template and its substitutes are as before the call.              *)
C9_RemoveTemplate ==
    Returned("remove_template") =>
        /\ call.template \in TemplateSet(PreDB) =>
              /\ ret = Ok(TRUE)
              /\ \A r \in get_templates(DB) : call.template \notin Range(r.val)
        /\ call.template \notin TemplateSet(PreDB) =>
              /\ ret = Err(QueryReturnedNoRows)
              /\ call.template \notin TemplateSet(DB)
        /\ OthersUnchanged({call.template})

\* a template with substitutes is removed while another one with
\* substitutes exists
C9_Witness ==
    /\ Returned("remove_template") /\ ret.ok
    /\ SubsByName(PreDB, call.template) # {}
    /\ \E U \in TemplateSet(PreDB) \ {call.template} : SubsByName(PreDB, U) # {}

(* C10: remove_subs(T, S) on an existing T returns the elements of S that  *)
(* were substitutes of T, each at its first occurrence in S and in S's     *)
(* order; afterwards no element of S is a substitute of T, the other       *)
(* substitutes of T and all other templates are unchanged, and T exists.   *)
C10_RemoveSubs ==
    (Returned("remove_subs") /\ call.template \in TemplateSet(PreDB)) =>
        /\ ret = Ok(FirstOccurrencesIn(call.substitutes,
                                       SubsByName(PreDB, call.template)))
        /\ SubsByName(DB, call.template) \cap Range(call.substitutes) = {}
        /\ SubsByName(DB, call.template) =
              SubsByName(PreDB, call.template) \ Range(call.substitutes)
        /\ call.template \in TemplateSet(DB)
        /\ templates = pre_templates
        /\ OthersUnchanged({call.template})

\* a slice that names a substitute twice, of a template that holds it and
\* another one
C10_Witness ==
    /\ Returned("remove_subs") /\ ret.ok
    /\ Len(call.substitutes) = 2
    /\ call.substitutes[1] = call.substitutes[2]
    /\ Len(ret.val) = 1
    /\ SubsByName(DB, call.template) # {}

(* C11: insert_subs(T, Some(S)) returns the elements of S that were not    *)
(* substitutes of T before the call, in S's order, each at its first       *)
(* occurrence only; insert_subs(T, None) returns an empty record.          *)
C11_InsertChangeRecord ==
    (Returned("insert_subs") /\ ret.ok) =>
        IF call.substitutes.some
        THEN ret.val = FirstOccurrencesIn(
                           call.substitutes.v,
                           Range(call.substitutes.v)
                               \ SubsByName(PreDB, call.template))
        ELSE ret.val = <<>>

\* a slice of two elements of which only one is reported: the other was
\* there already, or the two are the same
C11_Witness ==
    /\ Returned("insert_subs") /\ ret.ok /\ call.substitutes.some
    /\ Len(call.substitutes.v) = 2
    /\ Len(ret.val) = 1

(* C12: on a template that does not exist, remove_template, remove_sub,    *)
(* remove_subs and rename_substitute return the no-rows error and leave    *)
(* the templates and the substitutes as they were.                         *)
C12_MissingTemplate ==
    (pc = "returned"
        /\ call.op \in {"remove_template", "remove_sub", "remove_subs",
                        "rename_substitute"}
        /\ call.template \notin TemplateSet(PreDB)) =>
        /\ ret = Err(QueryReturnedNoRows)
        /\ templates = pre_templates
        /\ substitutes = pre_substitutes
        /\ call.template \notin TemplateSet(DB)

\* remove_subs on a missing template of a store that holds another
\* template with the substitutes named in the call
C12_Witness ==
    /\ Returned("remove_subs")
    /\ call.template \notin TemplateSet(PreDB)
    /\ call.substitutes # <<>>
    /\ \E U \in TemplateSet(PreDB) :
          Range(call.substitutes) \subseteq SubsByName(PreDB, U)
    /\ ~ret.ok

(* C13: rename_substitute(T, old_sub, new_sub) on an existing T: with old  *)
(* and new two different substitutes of T it fails with the uniqueness     *)
(* error and changes nothing; with old a substitute of T and new not, it   *)
(* returns true and T's substitutes are the previous ones with old         *)
(* replaced by new, every other template keeping its own; with old not a   *)
(* substitute of T it returns false and changes nothing.                   *)
C13_RenameSubstitute ==
    (Returned("rename_substitute") /\ call.template \in TemplateSet(PreDB)) =>
        LET before == SubsByName(PreDB, call.template)
        IN  /\ (call.old_sub # call.new_sub
                   /\ {call.old_sub, call.new_sub} \subseteq before) =>
                  /\ ret = Err(ConstraintViolation)
                  /\ substitutes = pre_substitutes
            /\ (call.old_sub \in before /\ call.new_sub \notin before) =>
                  /\ ret = Ok(TRUE)
                  /\ SubsByName(DB, call.template) =
                        (before \ {call.old_sub}) \cup {call.new_sub}
            /\ call.old_sub \notin before =>
                  /\ ret = Ok(FALSE)
                  /\ substitutes = pre_substitutes
            /\ templates = pre_templates
            /\ OthersUnchanged({call.template})

\* a rename under one template while another template holds a substitute
\* of the old name
C13_Witness ==
    /\ Returned("rename_substitute") /\ ret = Ok(TRUE)
    /\ call.old_sub # call.new_sub
    /\ \E U \in TemplateSet(PreDB) \ {call.template} :
          call.old_sub \in SubsByName(PreDB, U)

(* C14: get_subs(T) and get_random_subs(T) treat a missing template alike: *)
(* each returns an error exactly when T is not an existing template, and   *)
(* for an existing template without substitutes get_subs returns the empty *)
(* list and get_random_subs the empty string.                              *)
C14_MissingTemplatePolicy ==
    /\ (Returned("get_subs") \/ Returned("get_random_subs")) =>
          (ret.ok <=> call.template \in TemplateSet(DB))
    /\ \A T \in TemplateNames :
          /\ \A r \in get_subs(DB, T) : r.ok <=> T \in TemplateSet(DB)
          /\ \A r \in get_random_subs(DB, T) : r.ok <=> T \in TemplateSet(DB)
          /\ (T \in TemplateSet(DB) /\ SubsByName(DB, T) = {}) =>
                /\ get_subs(DB, T) = {Ok(<<>>)}
                /\ get_random_subs(DB, T) = {Ok(s_empty)}

\* get_random_subs on an existing template without substitutes, while a
\* queried name is missing from the store
C14_Witness ==
    /\ Returned("get_random_subs") /\ ret = Ok(s_empty)
    /\ call.template \in TemplateSet(DB)
    /\ TemplateNames \ TemplateSet(DB) # {}

(* C15: substitutes are scoped per template: a name that another template *)
(* holds already is inserted under T and reported as newly inserted, both  *)
(* templates hold it afterwards, and an insert, remove or rename of        *)
(* substitutes under T leaves what get_subs returns for every other        *)
(* template unchanged.                                                     *)
C15_ScopedPerTemplate ==
    /\ (pc = "returned"
           /\ call.op \in {"insert_sub", "insert_subs", "remove_sub",
                           "remove_subs", "rename_substitute"}) =>
          \A U \in TemplateNames \ {call.template} :
              get_subs(DB, U) = get_subs(PreDB, U)
    /\ (Returned("insert_subs") /\ ret.ok /\ call.substitutes.some) =>
          \A x \in Range(call.substitutes.v) \ SubsByName(PreDB, call.template) :
              /\ x \in Range(ret.val)
              /\ x \in SubsByName(DB, call.template)

\* a name held by another template is reported as newly inserted, and both
\* templates hold it
C15_Witness ==
    /\ Returned("insert_subs") /\ ret.ok /\ call.substitutes.some
    /\ \E x \in Range(ret.val) :
          \E U \in TemplateSet(PreDB) \ {call.template} :
              /\ x \in SubsByName(PreDB, U)
              /\ x \in SubsByName(DB, U)
              /\ x \in SubsByName(DB, call.template)

(* C16: get_random_subs(T) on an existing T returns one of T's current     *)
(* substitutes when T has any and the empty string when it has none, and   *)
(* leaves the store unchanged.                                             *)
C16_RandomSubstitute ==
    (Returned("get_random_subs") /\ call.template \in TemplateSet(DB)) =>
        /\ ret.ok
        /\ SubsByName(DB, call.template) # {} =>
              ret.val \in SubsByName(DB, call.template)
        /\ SubsByName(DB, call.template) = {} => ret.val = s_empty
        /\ templates = pre_templates
        /\ substitutes = pre_substitutes

\* a substitute is drawn for a template while another template holds a
\* name that this one does not
C16_Witness ==
    /\ Returned("get_random_subs") /\ ret.ok
    /\ ret.val \in SubsByName(DB, call.template)
    /\ \E U \in TemplateSet(DB) :
          SubsByName(DB, U) \ SubsByName(DB, call.template) # {}

(* C17: clear() succeeds in every state, the empty store included, and     *)
(* leaves no template and no substitute: get_templates returns the empty   *)
(* list and a template created again by insert_subs has no substitutes.    *)
C17_Clear ==
    Returned("clear") =>
        /\ ret.ok
        /\ templates = {}
        /\ substitutes = {}
        /\ get_templates(DB) = {Ok(<<>>)}
        /\ \A T \in TemplateNames :
              get_subs(insert_subs(DB, T, None, 0).db, T) = {Ok(<<>>)}

\* clear of a store that held two templates and substitutes
C17_Witness ==
    /\ Returned("clear") /\ ret.ok
    /\ Cardinality(pre_templates) = 2
    /\ pre_substitutes # {}

(* C18: the order of the lists is a function of the store's content: the   *)
(* list get_subs or get_templates has returned is the only one the store   *)
(* can return, and names with equal lowercased keys appear in the order of *)
(* the original strings.                                                   *)
C18_DeterministicOrder ==
    /\ (Returned("get_subs") /\ ret.ok) =>
          /\ get_subs(DB, call.template) = {ret}
          /\ \A i, j \in DOMAIN ret.val :
                (i < j /\ ~CaseInsensitiveLess(ret.val[i], ret.val[j])) =>
                    BinaryLess(ret.val[i], ret.val[j])
    /\ (Returned("get_templates") /\ ret.ok) =>
          /\ get_templates(DB) = {ret}
          /\ \A i, j \in DOMAIN ret.val :
                (i < j /\ ~CaseInsensitiveLess(ret.val[i], ret.val[j])) =>
                    BinaryLess(ret.val[i], ret.val[j])

====
